---- MODULE Spec2Model ----
(***************************************************************************)
(* Combination tracking and resumable crawl of ApolloBackend:              *)
(*   utils/combinations_generator.py  generate_combinations,               *)
(*                                    update_combination_status            *)
(*   utils/apollo_fetcher.py          search_apollo_and_save_to_mongodb,   *)
(*                                    save_to_mongodb                      *)
(*   api/views.py, api/models.py      OrganizationDetailView, Organization *)
(*   api/management/commands/fetch_apollo_data.py   Command.handle         *)
(*   api/management/commands/init_mongodb.py        Command.handle         *)
(* The combinations collection is a sequence of documents in store order.  *)
(* Every worker process p runs Command.handle, one step per store write,   *)
(* request or sleep.                                                       *)
(***************************************************************************)
EXTENDS Integers, Sequences, FiniteSets, TLC

VARIABLES
    combinations,   \* settings.MONGO_DB['combinations'], in store order
    now,            \* timezone.now(), a clock that advances per invocation
    pc,             \* pc[p]: where process p is in Command.handle
    options,        \* options[p]: the command line of p's invocation
    gen,            \* gen[p]: the locals of generate_combinations
    filtered_combinations, \* filtered_combinations[p]: the selected queue
    i,              \* i[p]: index (from 1) of the item being processed
    search,         \* search[p]: the locals of search_apollo_and_save_to_mongodb
    run,            \* run[p]: what the invocation has done so far (observer)
    organization_collection, \* settings.MONGO_DB['organization'], in store order
    industry_collection, \* settings.MONGO_DB['industry'], in store order
    keyword_collection,  \* settings.MONGO_DB['keyword'], in store order
    object_ids,     \* the number of _id values the organization store has given out
    saving,         \* saving[p]: the locals of save_to_mongodb
    response        \* the last request to OrganizationDetailView and its response

\* the state of the organization side: the three collections, the saves and the API
orgVars == <<organization_collection, industry_collection, keyword_collection,
            object_ids, saving, response>>

vars == <<combinations, now, pc, options, gen, filtered_combinations, i, search, run,
          organization_collection, industry_collection, keyword_collection,
          object_ids, saving, response>>

-----------------------------------------------------------------------------
(* Bounds of the model *)

MaxRuns == 2        \* invocations of the command over all processes
MaxPages == 1       \* result pages a search may walk through
BatchSize == 1      \* stands for batch_size = 100000: operations per bulk_write
MaxLimit == 1       \* largest --limit tried
MaxSaves == 2       \* calls of save_to_mongodb over all processes

Procs == {1, 2}

None == "None"
Absent == -1        \* a document without the results_count field / results_count=None

Statuses == {"pending", "in_progress", "completed", "failed"}

\* data/all_Cities.csv as read by csv.DictReader: a sequence, duplicates possible
LocationFiles == {<<"NYC">>, <<"LA">>, <<"NYC", "LA">>, <<"LA", "LA">>}

\* data/formatted_industry_tags.json: industry name -> id, in file order
IndustryFiles == {<< <<"Tech", "t1">> >>}

employee_ranges == <<"1-10, 10-20, 20-50, 50-100, 100-200">>

-----------------------------------------------------------------------------
(* Pure helpers *)

Min(S) == CHOOSE x \in S : \A y \in S : x <= y

Range(s) == {s[k] : k \in 1..Len(s)}

\* itertools.product(locations, employee_ranges, apollo_industries): the first
\* factor varies slowest, the last fastest.
product(locations, ranges, industries) ==
    LET nl == Len(locations)
        nr == Len(ranges)
        ni == Len(industries)
    IN  [k \in 1..(nl * nr * ni) |->
            [location |-> locations[((k - 1) \div (nr * ni)) + 1],
             size     |-> ranges[(((k - 1) \div ni) % nr) + 1],
             industry |-> industries[((k - 1) % ni) + 1]]]

\* collection.count_documents({}) and count_documents({"status": s})
count_documents(coll, status) ==
    Cardinality({k \in 1..Len(coll) : status = None \/ coll[k].status = status})

\* the documents a {"location": l, "industry_name": n} filter matches
Matching(coll, location, industry_name) ==
    {k \in 1..Len(coll) : coll[k].location = location
                          /\ coll[k].industry_name = industry_name}

-----------------------------------------------------------------------------
(* The combinations collection *)

\* the collection without the unique index: every insert is accepted
NoUniqueIndex(coll, doc) == TRUE

\* init_mongodb: create_index([("location", 1), ("industry_name", 1)], unique=True).
\* An insert is accepted only when no stored document has the same pair.
UniqueIndexAllows(coll, doc) ==
    Matching(coll, doc.location, doc.industry_name) = {}

\* the document prepared with a results_count of 0
combination_with_count(item, industry_tags, t) ==
    LET industry == item.industry
        industry_id == (CHOOSE e \in Range(industry_tags) : e[1] = industry)[2]
    IN  [location        |-> item.location,
         employee_ranges |-> item.size,
         industry_id     |-> industry_id,
         industry_name   |-> industry,
         status          |-> "pending",
         results_count   |-> 0,
         created_at      |-> t,
         updated_at      |-> t]

\* The document generate_combinations prepares for one element of the product.
combination(item, industry_tags, t) ==
    LET industry == item.industry
        industry_id == (CHOOSE e \in Range(industry_tags) : e[1] = industry)[2]
    IN  [location        |-> item.location,
         employee_ranges |-> item.size,
         industry_id     |-> industry_id,
         industry_name   |-> industry,
         status          |-> "pending",
         results_count   |-> Absent,
         created_at      |-> t,
         updated_at      |-> t]

\* the upsert with "$set" in the place of "$setOnInsert": a matched document is
\* overwritten with the prepared combination
SetAlways(coll, doc, matched) ==
    IF matched
    THEN [coll EXCEPT ![Min(Matching(coll, doc.location, doc.industry_name))] =
            [doc EXCEPT !.results_count = @]]
    ELSE IF ~UniqueIndexAllows(coll, doc) THEN coll ELSE Append(coll, doc)

\* The write half of UpdateOne(filter, {"$setOnInsert": combination}, upsert=True)
\* once the filter has been evaluated: a matched document is left as it is,
\* otherwise the combination is inserted if the unique index accepts it.
SetOnInsert(coll, doc, matched) ==
    IF matched \/ ~UniqueIndexAllows(coll, doc) THEN coll ELSE Append(coll, doc)

\* the update with update_many and the filter {"industry_name": industry_name}
update_by_industry(coll, location, industry_name, status, results_count, t) ==
    [k \in 1..Len(coll) |->
        IF coll[k].industry_name = industry_name
        THEN [coll[k] EXCEPT !.status = status,
                             !.updated_at = t,
                             !.results_count =
                                 IF results_count # Absent THEN results_count ELSE @]
        ELSE coll[k]]

\* the update with upsert=True: a pair that is not in the store gets a document
update_with_upsert(coll, location, industry_name, status, results_count, t) ==
    LET m == Matching(coll, location, industry_name)
    IN  IF m = {}
        THEN Append(coll, [location |-> location, employee_ranges |-> "",
                           industry_id |-> "", industry_name |-> industry_name,
                           status |-> status, results_count |-> results_count,
                           created_at |-> t, updated_at |-> t])
        ELSE [coll EXCEPT ![Min(m)] =
                [@ EXCEPT !.status = status,
                          !.updated_at = t,
                          !.results_count =
                              IF results_count # Absent THEN results_count ELSE @]]

\* update_combination_status without "update_data["results_count"] = results_count"
update_status_only(coll, location, industry_name, status, results_count, t) ==
    LET m == Matching(coll, location, industry_name)
    IN  IF m = {} THEN coll
        ELSE [coll EXCEPT ![Min(m)] = [@ EXCEPT !.status = status, !.updated_at = t]]

\* update_combination_status without "if results_count is not None": the field is
\* written on every update, None when no count is given
update_always_sets_count(coll, location, industry_name, status, results_count, t) ==
    LET m == Matching(coll, location, industry_name)
    IN  IF m = {} THEN coll
        ELSE [coll EXCEPT ![Min(m)] =
                [@ EXCEPT !.status = status, !.updated_at = t,
                          !.results_count = results_count]]

\* update_combination_status: update_one(filter, {"$set": update_data}) changes
\* the first matching document; results_count is set only when it is given.
update_combination_status(coll, location, industry_name, status, results_count, t) ==
    LET m == Matching(coll, location, industry_name)
    IN  IF m = {} THEN coll
        ELSE [coll EXCEPT ![Min(m)] =
                [@ EXCEPT !.status = status,
                          !.updated_at = t,
                          !.results_count =
                              IF results_count # Absent THEN results_count ELSE @]]

\* the reset with the filter {"status": {"$in": ["failed", "in_progress"]}}
reset_unfinished(coll, t) ==
    [k \in 1..Len(coll) |->
        IF coll[k].status \in {"failed", "in_progress"}
        THEN [coll[k] EXCEPT !.status = "pending", !.updated_at = t]
        ELSE coll[k]]

\* --reset-failed: update_many({"status": "failed"},
\*                             {"$set": {"status": "pending", "updated_at": now}})
reset_failed(coll, t) ==
    [k \in 1..Len(coll) |->
        IF coll[k].status = "failed"
        THEN [coll[k] EXCEPT !.status = "pending", !.updated_at = t]
        ELSE coll[k]]

\* the counts with every document reported as pending
StatusCountsAllPending(coll, total, new_added, skipped) ==
    [total              |-> total,
     pending            |-> count_documents(coll, None),
     completed          |-> 0,
     failed             |-> 0,
     in_progress        |-> 0,
     new_added          |-> new_added,
     skipped_generation |-> skipped]

\* the status counts generate_combinations returns
StatusCounts(coll, total, new_added, skipped) ==
    [total              |-> total,
     pending            |-> count_documents(coll, "pending"),
     completed          |-> count_documents(coll, "completed"),
     failed             |-> count_documents(coll, "failed"),
     in_progress        |-> count_documents(coll, "in_progress"),
     new_added          |-> new_added,
     skipped_generation |-> skipped]

-----------------------------------------------------------------------------
(* The work selector *)

Letters(s) ==
    CASE s = "NYC"    -> <<"N", "Y", "C">>
      [] s = "LA"     -> <<"L", "A">>
      [] s = "Tech"   -> <<"T", "e", "c", "h">>
      [] s = "Health" -> <<"H", "e", "a", "l", "t", "h">>
      [] s = "la"     -> <<"l", "a">>
      [] s = "TE"     -> <<"T", "E">>

lower(c) ==
    CASE c = "N" -> "n" [] c = "Y" -> "y" [] c = "C" -> "c" [] c = "L" -> "l"
      [] c = "A" -> "a" [] c = "T" -> "t" [] c = "H" -> "h" [] c = "E" -> "e"
      [] OTHER -> c

\* {"$regex": pattern, "$options": "i"} for a pattern of plain letters: the
\* pattern occurs somewhere in the value, letter case ignored.
regex_i(pattern, value) ==
    LET pt == [k \in 1..Len(Letters(pattern)) |-> lower(Letters(pattern)[k])]
        v == [k \in 1..Len(Letters(value)) |-> lower(Letters(value)[k])]
    IN  \E k \in 1..(Len(v) - Len(pt) + 1) : SubSeq(v, k, k + Len(pt) - 1) = pt

\* the query without its "status" key
QueryMatchesAnyStatus(opts, doc) ==
    /\ opts.location # None => regex_i(opts.location, doc.location)
    /\ opts.industry # None => regex_i(opts.industry, doc.industry_name)

\* the default filter selecting pending documents only
QueryMatchesPendingOnly(opts, doc) ==
    /\ doc.status = (IF opts.status # None THEN opts.status ELSE "pending")
    /\ opts.location # None => regex_i(opts.location, doc.location)
    /\ opts.industry # None => regex_i(opts.industry, doc.industry_name)

\* the default filter selecting in_progress documents as well
QueryMatchesUnfinished(opts, doc) ==
    /\ IF opts.status # None THEN doc.status = opts.status
                             ELSE doc.status \in {"pending", "failed", "in_progress"}
    /\ opts.location # None => regex_i(opts.location, doc.location)
    /\ opts.industry # None => regex_i(opts.industry, doc.industry_name)

\* the query Command.handle builds from --status, --location and --industry
QueryMatches(opts, doc) ==
    /\ IF opts.status # None THEN doc.status = opts.status
                             ELSE doc.status \in {"pending", "failed"}
    /\ opts.location # None => regex_i(opts.location, doc.location)
    /\ opts.industry # None => regex_i(opts.industry, doc.industry_name)

\* the projection {"location", "employee_ranges", "industry_id", "industry_name"}
Projected(doc) ==
    [location        |-> doc.location,
     employee_ranges |-> doc.employee_ranges,
     industry_id     |-> doc.industry_id,
     industry_name   |-> doc.industry_name]

\* list(find(query, projection)): the matching documents in store order
find(coll, opts) ==
    LET hits == SelectSeq(coll, LAMBDA d : QueryMatches(opts, d))
    IN  [k \in 1..Len(hits) |-> Projected(hits[k])]

\* a limit that keeps the last documents of the list
apply_limit_last(found, limit) ==
    IF limit # 0 /\ limit > 0 /\ limit < Len(found)
    THEN SubSeq(found, Len(found) - limit + 1, Len(found))
    ELSE found

\* "if limit and limit > 0 and limit < len(filtered_combinations)"; a --limit
\* that was not given is None, which is as false as 0 and is written 0 here.
apply_limit(found, limit) ==
    IF limit # 0 /\ limit > 0 /\ limit < Len(found)
    THEN SubSeq(found, 1, limit)
    ELSE found

-----------------------------------------------------------------------------
(* Initial state: initialised, empty collections; no command running *)

NoOptions ==
    [status |-> None, location |-> None, industry |-> None, limit |-> 0,
     reset_failed |-> FALSE, skip_generation |-> FALSE,
     cookies_file |-> TRUE, headers_file |-> TRUE]

\* The command lines tried; cookies_file / headers_file say whether the file
\* exists. Every status filter with and without --skip-generation;
\* --reset-failed on the default and the pending filter; a location filter, an
\* industry filter and the limits on the default status; a missing cookies or
\* headers file.
OptionSets ==
    {[NoOptions EXCEPT !.status = s, !.skip_generation = g] :
        s \in {None} \cup Statuses, g \in BOOLEAN}
    \cup {[NoOptions EXCEPT !.status = s, !.reset_failed = TRUE, !.skip_generation = g] :
            s \in {None, "pending"}, g \in BOOLEAN}
    \cup {[NoOptions EXCEPT !.location = "la", !.skip_generation = TRUE],
          [NoOptions EXCEPT !.industry = "TE", !.skip_generation = TRUE]}
    \cup {[NoOptions EXCEPT !.limit = m, !.skip_generation = TRUE] : m \in 1..MaxLimit}
    \cup {[NoOptions EXCEPT !.reset_failed = TRUE, !.cookies_file = c,
                            !.headers_file = ~c] : c \in BOOLEAN}

NoGen ==
    [locations |-> <<>>, industry_tags |-> <<>>, total_potential |-> 0,
     processed_count |-> 0, current_batch |-> <<>>, op |-> 0, matched |-> FALSE,
     upserted |-> 0, write_errors |-> 0, new_combinations_count |-> 0,
     batch_failed |-> FALSE, returned |-> FALSE,
     result |-> [total |-> 0, pending |-> 0, completed |-> 0, failed |-> 0,
                 in_progress |-> 0, new_added |-> 0, skipped_generation |-> FALSE]]

NoSearch == [page |-> 0, total_results_found |-> 0]

\* What an invocation has done: pending_count and completed_in_run are its
\* variables of these names; attempted counts the calls of the search; outcome,
\* before, results_count, delay and met are about the item the loop is at: how
\* it ended, the results_count stored before it started, the value the search
\* returned, the seconds slept after it, and the trouble its search requests
\* met, if any. exit is "no_files" after the command has returned because a
\* credentials file is missing.
NoRun ==
    [attempted |-> 0, completed_in_run |-> 0, pending_count |-> 0, outcome |-> None,
     before |-> Absent, results_count |-> Absent, delay |-> 0, met |-> None,
     exit |-> None]

\* the observations of the item the loop is at, cleared
NoItem(r) ==
    [r EXCEPT !.outcome = None, !.before = Absent, !.results_count = Absent, !.delay = 0,
              !.met = None]

\* the locals of save_to_mongodb outside a call: extracted_data, the position
\* in the list being walked, and what the last find_one returned
NoData == [apollo_id |-> None, name |-> None, industry |-> <<>>, keywords |-> <<>>,
           created_at |-> Absent, updated_at |-> Absent]

NoSave == [extracted_data |-> NoData, k |-> 0, existing |-> FALSE, existing_id |-> Absent]

\* no request has been answered yet
NoResponse == [method |-> None, org_id |-> Absent, status |-> Absent, body |-> None]

Init ==
    /\ combinations = <<>>
    /\ now = 0
    /\ pc = [p \in Procs |-> "idle"]
    /\ options = [p \in Procs |-> NoOptions]
    /\ gen = [p \in Procs |-> NoGen]
    /\ filtered_combinations = [p \in Procs |-> <<>>]
    /\ i = [p \in Procs |-> 0]
    /\ search = [p \in Procs |-> NoSearch]
    /\ run = [p \in Procs |-> NoRun]
    /\ organization_collection = <<>>
    /\ industry_collection = <<>>
    /\ keyword_collection = <<>>
    /\ object_ids = 0
    /\ saving = [p \in Procs |-> NoSave]
    /\ response = NoResponse

-----------------------------------------------------------------------------
(* Command.handle up to the selection *)

\* Command.handle returns, or the process ends: its local variables are gone
Return(p) ==
    /\ pc' = [pc EXCEPT ![p] = "idle"]
    /\ options' = [options EXCEPT ![p] = NoOptions]
    /\ gen' = [gen EXCEPT ![p] = NoGen]
    /\ filtered_combinations' = [filtered_combinations EXCEPT ![p] = <<>>]
    /\ i' = [i EXCEPT ![p] = 0]
    /\ search' = [search EXCEPT ![p] = NoSearch]
    /\ run' = [run EXCEPT ![p] = NoRun]

\* python manage.py fetch_apollo_data <options>
Invoke(p, opts) ==
    /\ pc[p] = "idle"
    /\ now < MaxRuns
    /\ now' = now + 1
    /\ options' = [options EXCEPT ![p] = opts]
    /\ pc' = [pc EXCEPT ![p] = "check_files"]
    /\ gen' = [gen EXCEPT ![p] = NoGen]
    /\ filtered_combinations' = [filtered_combinations EXCEPT ![p] = <<>>]
    /\ i' = [i EXCEPT ![p] = 0]
    /\ search' = [search EXCEPT ![p] = NoSearch]
    /\ run' = [run EXCEPT ![p] = NoRun]
    /\ UNCHANGED combinations
    /\ UNCHANGED orgVars

\* the command returns on a missing credentials file
NoFiles(p) ==
    /\ pc' = [pc EXCEPT ![p] = "idle"]
    /\ options' = [options EXCEPT ![p] = NoOptions]
    /\ run' = [run EXCEPT ![p] = [NoRun EXCEPT !.exit = "no_files"]]
    /\ UNCHANGED <<gen, filtered_combinations, i, search>>

\* a check that looks for the cookies file only
CheckFilesCookiesOnly(p) ==
    /\ pc[p] = "check_files"
    /\ IF options[p].cookies_file
       THEN /\ pc' = [pc EXCEPT ![p] = "reset"]
            /\ UNCHANGED <<options, gen, filtered_combinations, i, search, run>>
       ELSE NoFiles(p)
    /\ UNCHANGED <<combinations, now>>
    /\ UNCHANGED orgVars

\* the reset of failed combinations applied before the files are looked for
CheckFilesAfterReset(p) ==
    /\ pc[p] = "check_files"
    /\ combinations' = IF options[p].reset_failed
                       THEN reset_failed(combinations, now)
                       ELSE combinations
    /\ IF options[p].cookies_file /\ options[p].headers_file
       THEN /\ pc' = [pc EXCEPT ![p] = "reset"]
            /\ UNCHANGED <<options, gen, filtered_combinations, i, search, run>>
       ELSE NoFiles(p)
    /\ UNCHANGED now
    /\ UNCHANGED orgVars

\* "if not os.path.exists(cookies_file): ... return", the same for headers_file
CheckFiles(p) ==
    /\ pc[p] = "check_files"
    /\ LET found == options[p].cookies_file /\ options[p].headers_file
       IN  IF found
           THEN /\ pc' = [pc EXCEPT ![p] = "reset"]
                /\ UNCHANGED <<options, gen, filtered_combinations, i, search, run>>
           ELSE NoFiles(p)
    /\ UNCHANGED <<combinations, now>>
    /\ UNCHANGED orgVars

\* a run that goes on to the generation without the reset
ResetFailedNotApplied(p) ==
    /\ pc[p] = "reset"
    /\ pc' = [pc EXCEPT ![p] = "generate"]
    /\ UNCHANGED <<combinations, now, options, gen, filtered_combinations, i, search, run>>
    /\ UNCHANGED orgVars

\* "if options.get('reset_failed'): ... update_many(...)"
ResetFailed(p) ==
    /\ pc[p] = "reset"
    /\ combinations' = IF options[p].reset_failed
                       THEN reset_failed(combinations, now)
                       ELSE combinations
    /\ pc' = [pc EXCEPT ![p] = "generate"]
    /\ UNCHANGED <<now, options, gen, filtered_combinations, i, search, run>>
    /\ UNCHANGED orgVars

-----------------------------------------------------------------------------
(* generate_combinations *)

\* the names of the industries, list(industry_tags.keys())
apollo_industries(industry_tags) ==
    [k \in 1..Len(industry_tags) |-> industry_tags[k][1]]

\* "total_potential = len(locations) * len(employee_ranges) * len(apollo_industries)"
total_potential(locations, industry_tags) ==
    Len(locations) * Len(employee_ranges) * Len(industry_tags)

\* the test written "existing_count >= total_potential"
SkipsGenerationAtLeast(coll, locations, industry_tags) ==
    count_documents(coll, None) >= total_potential(locations, industry_tags)

\* "if existing_count == total_potential": the generation is skipped
SkipsGeneration(coll, locations, industry_tags) ==
    count_documents(coll, None) = total_potential(locations, industry_tags)

\* The loop of generate_combinations from element `from` of the product on: it
\* appends to current_batch until the batch has batch_size operations or the
\* product is exhausted.
FillBatch(g, from) ==
    LET all == product(g.locations, employee_ranges, apollo_industries(g.industry_tags))
        to == IF from + BatchSize - 1 < Len(all) THEN from + BatchSize - 1 ELSE Len(all)
    IN  [g EXCEPT !.current_batch = SubSeq(all, from, to),
                  !.processed_count = to,
                  !.op = 1, !.upserted = 0, !.write_errors = 0, !.matched = FALSE]

\* where generate_combinations goes once a bulk_write has returned or raised:
\* into the next batch, or to the counting at its end
AfterBatch(g) ==
    IF g.processed_count < g.total_potential THEN "bulk_write" ELSE "gen_count"

\* generate_combinations reads its input files, and returns the current counts at
\* once when the collection already holds total_potential documents.
GenerateStart(p, locations, industry_tags) ==
    /\ pc[p] = "generate"
    /\ ~options[p].skip_generation
    /\ LET g == [NoGen EXCEPT !.locations = locations,
                              !.industry_tags = industry_tags,
                              !.total_potential = total_potential(locations, industry_tags)]
       IN  IF SkipsGeneration(combinations, locations, industry_tags)
           THEN /\ gen' = [gen EXCEPT ![p] =
                            [g EXCEPT !.returned = TRUE,
                                      !.result = StatusCounts(combinations,
                                                     g.total_potential, 0, TRUE)]]
                /\ pc' = [pc EXCEPT ![p] = "select"]
           ELSE /\ gen' = [gen EXCEPT ![p] = FillBatch(g, 1)]
                /\ pc' = [pc EXCEPT ![p] = "bulk_write"]
    /\ UNCHANGED <<combinations, now, options, filtered_combinations, i, search, run>>
    /\ UNCHANGED orgVars

\* --skip-generation: the collection is only counted
SkipGeneration(p) ==
    /\ pc[p] = "generate"
    /\ options[p].skip_generation
    /\ pc' = [pc EXCEPT ![p] = "select"]
    /\ UNCHANGED <<combinations, now, options, gen, filtered_combinations, i, search, run>>
    /\ UNCHANGED orgVars

\* bulk_write, one operation of current_batch: the store evaluates the filter
BulkFind(p) ==
    /\ pc[p] = "bulk_write"
    /\ LET item == gen[p].current_batch[gen[p].op]
       IN  gen' = [gen EXCEPT ![p].matched =
                        Matching(combinations, item.location, item.industry) # {}]
    /\ pc' = [pc EXCEPT ![p] = "bulk_apply"]
    /\ UNCHANGED <<combinations, now, options, filtered_combinations, i, search, run>>
    /\ UNCHANGED orgVars

\* bulk_write, the same operation: $setOnInsert with upsert=True is applied
BulkApply(p) ==
    /\ pc[p] = "bulk_apply"
    /\ LET g == gen[p]
           doc == combination(g.current_batch[g.op], g.industry_tags, now)
           after == SetOnInsert(combinations, doc, g.matched)
       IN  /\ combinations' = after
           /\ gen' = [gen EXCEPT ![p] =
                        [g EXCEPT !.op = @ + 1,
                                  !.upserted = IF Len(after) > Len(combinations)
                                               THEN @ + 1 ELSE @,
                                  !.write_errors =
                                      IF ~g.matched /\ Len(after) = Len(combinations)
                                      THEN @ + 1 ELSE @]]
           /\ pc' = [pc EXCEPT ![p] =
                        IF g.op < Len(g.current_batch) THEN "bulk_write" ELSE "bulk_return"]
    /\ UNCHANGED <<now, options, filtered_combinations, i, search, run>>
    /\ UNCHANGED orgVars

\* bulk_write returns; "new_combinations_count += result.upserted_count", unless
\* an operation was refused (BulkWriteError: "Error inserting batch", the count
\* of the batch is lost); "current_batch = []" and the loop goes on
BulkReturn(p) ==
    /\ pc[p] = "bulk_return"
    /\ LET g == gen[p]
           counted == [g EXCEPT !.new_combinations_count =
                                    IF g.write_errors = 0 THEN @ + g.upserted ELSE @,
                                !.batch_failed = @ \/ g.write_errors > 0]
       IN  /\ gen' = [gen EXCEPT ![p] =
                        IF AfterBatch(g) = "bulk_write"
                        THEN FillBatch(counted, g.processed_count + 1)
                        ELSE [counted EXCEPT !.current_batch = <<>>]]
           /\ pc' = [pc EXCEPT ![p] = AfterBatch(g)]
    /\ UNCHANGED <<combinations, now, options, filtered_combinations, i, search, run>>
    /\ UNCHANGED orgVars

\* bulk_write raises (the store becomes unreachable): before an operation of the
\* batch is applied, or when all are applied and the reply is lost.
\* "except Exception: print(Error inserting batch); current_batch = []"
BulkFail(p) ==
    /\ pc[p] \in {"bulk_write", "bulk_return"}
    /\ LET g == [gen[p] EXCEPT !.batch_failed = TRUE]
       IN  /\ gen' = [gen EXCEPT ![p] =
                        IF AfterBatch(g) = "bulk_write"
                        THEN FillBatch(g, g.processed_count + 1)
                        ELSE [g EXCEPT !.current_batch = <<>>]]
           /\ pc' = [pc EXCEPT ![p] = AfterBatch(g)]
    /\ UNCHANGED <<combinations, now, options, filtered_combinations, i, search, run>>
    /\ UNCHANGED orgVars

\* the counting at the end of generate_combinations and its return value
GenerateFinish(p) ==
    /\ pc[p] = "gen_count"
    /\ gen' = [gen EXCEPT ![p].returned = TRUE,
                          ![p].result = StatusCounts(combinations,
                                            count_documents(combinations, None),
                                            gen[p].new_combinations_count, FALSE)]
    /\ pc' = [pc EXCEPT ![p] = "select"]
    /\ UNCHANGED <<combinations, now, options, filtered_combinations, i, search, run>>
    /\ UNCHANGED orgVars

-----------------------------------------------------------------------------
(* Command.handle: selection and the loop over the selected combinations *)

\* the combination the loop is at
combo(p) == filtered_combinations[p][i[p]]

\* the stored document of a (location, industry_name) pair; used where it exists
Document(coll, location, industry_name) ==
    coll[Min(Matching(coll, location, industry_name))]

\* find(query, projection), the limit, and "if pending_count == 0: ... return".
\* The locals of generate_combinations are gone by now and what it returned
\* (all_combinations) is not read again: gen is cleared.
Select(p) ==
    /\ pc[p] = "select"
    /\ LET selected == apply_limit(find(combinations, options[p]), options[p].limit)
       IN  IF selected = <<>>
           THEN Return(p)
           ELSE /\ filtered_combinations' = [filtered_combinations EXCEPT ![p] = selected]
                /\ i' = [i EXCEPT ![p] = 1]
                /\ pc' = [pc EXCEPT ![p] = "item"]
                /\ run' = [run EXCEPT ![p].pending_count = Len(selected)]
                /\ gen' = [gen EXCEPT ![p] = NoGen]
                /\ UNCHANGED <<options, search>>
    /\ UNCHANGED <<combinations, now>>
    /\ UNCHANGED orgVars

\* a search that starts only for a combination no other run has in progress
StartSearchUnlessInProgress(p) ==
    /\ pc[p] = "item"
    /\ LET c == combo(p)
       IN  /\ \A k \in Matching(combinations, c.location, c.industry_name) :
                  combinations[k].status # "in_progress"
           /\ run' = [run EXCEPT ![p].attempted = @ + 1,
                                 ![p].before =
                                    IF Matching(combinations, c.location, c.industry_name) = {}
                                    THEN Absent
                                    ELSE Document(combinations, c.location,
                                                  c.industry_name).results_count]
           /\ combinations' = update_combination_status(combinations, c.location,
                                  c.industry_name, "in_progress", Absent, now)
    /\ search' = [search EXCEPT ![p] = [page |-> 1, total_results_found |-> 0]]
    /\ pc' = [pc EXCEPT ![p] = "request"]
    /\ UNCHANGED <<now, options, gen, filtered_combinations, i>>
    /\ UNCHANGED orgVars

\* a search that starts without the in_progress write
StartSearchWithoutWrite(p) ==
    /\ pc[p] = "item"
    /\ LET c == combo(p)
       IN  run' = [run EXCEPT ![p].attempted = @ + 1,
                              ![p].before =
                                 IF Matching(combinations, c.location, c.industry_name) = {}
                                 THEN Absent
                                 ELSE Document(combinations, c.location,
                                               c.industry_name).results_count]
    /\ search' = [search EXCEPT ![p] = [page |-> 1, total_results_found |-> 0]]
    /\ pc' = [pc EXCEPT ![p] = "request"]
    /\ UNCHANGED <<combinations, now, options, gen, filtered_combinations, i>>
    /\ UNCHANGED orgVars

\* search_apollo_and_save_to_mongodb is called for the combination; its first
\* statement is update_combination_status(location, industry_name, "in_progress")
StartSearch(p) ==
    /\ pc[p] = "item"
    /\ LET c == combo(p)
       IN  /\ run' = [run EXCEPT ![p].attempted = @ + 1,
                                 ![p].before =
                                    IF Matching(combinations, c.location, c.industry_name) = {}
                                    THEN Absent
                                    ELSE Document(combinations, c.location,
                                                  c.industry_name).results_count]
           /\ combinations' = update_combination_status(combinations, c.location,
                                  c.industry_name, "in_progress", Absent, now)
    /\ search' = [search EXCEPT ![p] = [page |-> 1, total_results_found |-> 0]]
    /\ pc' = [pc EXCEPT ![p] = "request"]
    /\ UNCHANGED <<now, options, gen, filtered_combinations, i>>
    /\ UNCHANGED orgVars

\* What one request of a result page can meet: the post raises (error), or a
\* response comes back with a status code, a body that parses or not, a number of
\* organizations, pagination.has_next_page, and the outcome of the details
\* request made for the organizations of the page.
per_page == 25

\* len(organizations) of a page that parses: none, a short page, a full page
PageSizes == {0, 7, per_page}

Responses ==
    [error : {FALSE}, status_code : {200, 500}, parseable : {TRUE},
     organizations : PageSizes \ {0}, has_next_page : BOOLEAN,
     details : {"ok", "not_200", "exception"}]
    \cup [error : {FALSE}, status_code : {200, 500}, parseable : {TRUE},
          organizations : {0}, has_next_page : BOOLEAN, details : {"ok"}]
    \cup [error : {FALSE}, status_code : {200, 500}, parseable : {FALSE},
          organizations : {0}, has_next_page : {FALSE}, details : {"ok"}]
    \cup [error : {TRUE}, status_code : {200}, parseable : {TRUE},
          organizations : {0}, has_next_page : {FALSE}, details : {"ok"}]

\* The page raises out of the while loop: the search post itself raises, or
\* fetch_organization_details meets an exception and runs "sys.exit(1)" in a
\* module that does not import sys (a NameError, which is an Exception). A body
\* that does not parse is caught inside the loop (json.JSONDecodeError).
PageRaises(resp) ==
    \/ resp.error
    \/ resp.parseable /\ resp.organizations > 0 /\ resp.details = "exception"

\* "total_results_found += len(organizations)"
PageFound(resp) == IF resp.parseable THEN resp.organizations ELSE 0

\* more_results after the page: False on a short page, on has_next_page False,
\* on a body that does not parse and on a status code other than 200
MoreResults(resp) ==
    /\ resp.parseable
    /\ resp.organizations >= per_page
    /\ resp.has_next_page
    /\ resp.status_code = 200

\* the trouble a search request meets: the post raises (a network error), the
\* body does not parse, or the status code is not 200
Met(resp) ==
    IF resp.error THEN "network_error"
    ELSE IF ~resp.parseable THEN "unparseable"
    ELSE IF resp.status_code # 200 THEN "not_200"
    ELSE None

\* one iteration of "while more_results"
SearchPage(p, resp) ==
    /\ pc[p] = "request"
    /\ MoreResults(resp) => search[p].page < MaxPages
    /\ IF PageRaises(resp)
       THEN /\ pc' = [pc EXCEPT ![p] = "search_except"]
            /\ UNCHANGED search
       ELSE /\ search' = [search EXCEPT
                            ![p].total_results_found = @ + PageFound(resp),
                            ![p].page = IF MoreResults(resp) THEN @ + 1 ELSE @]
            /\ pc' = [pc EXCEPT ![p] =
                        IF MoreResults(resp) THEN "request" ELSE "search_done"]
    /\ run' = [run EXCEPT ![p].met = IF Met(resp) # None THEN Met(resp) ELSE @]
    /\ UNCHANGED <<combinations, now, options, gen, filtered_combinations, i>>
    /\ UNCHANGED orgVars

\* the search that returns its count without the completed update
SearchCompletedWithoutUpdate(p) ==
    /\ pc[p] = "search_done"
    /\ run' = [run EXCEPT ![p].results_count = search[p].total_results_found]
    /\ pc' = [pc EXCEPT ![p] = "driver_ok"]
    /\ UNCHANGED <<combinations, now, options, gen, filtered_combinations, i, search>>
    /\ UNCHANGED orgVars

\* the completed update called without the count
SearchCompletedWithoutCount(p) ==
    /\ pc[p] = "search_done"
    /\ combinations' = update_combination_status(combinations, combo(p).location,
                           combo(p).industry_name, "completed", Absent, now)
    /\ run' = [run EXCEPT ![p].results_count = search[p].total_results_found]
    /\ pc' = [pc EXCEPT ![p] = "driver_ok"]
    /\ UNCHANGED <<now, options, gen, filtered_combinations, i, search>>
    /\ UNCHANGED orgVars

\* "update_combination_status(location, industry_name, "completed",
\*  total_results_found); return total_results_found"
SearchCompleted(p) ==
    /\ pc[p] = "search_done"
    /\ combinations' = update_combination_status(combinations, combo(p).location,
                           combo(p).industry_name, "completed",
                           search[p].total_results_found, now)
    /\ run' = [run EXCEPT ![p].results_count = search[p].total_results_found]
    /\ pc' = [pc EXCEPT ![p] = "driver_ok"]
    /\ UNCHANGED <<now, options, gen, filtered_combinations, i, search>>
    /\ UNCHANGED orgVars

\* "except Exception as e: update_combination_status(..., "failed"); raise e"
SearchFailed(p) ==
    /\ pc[p] = "search_except"
    /\ combinations' = update_combination_status(combinations, combo(p).location,
                           combo(p).industry_name, "failed", Absent, now)
    /\ pc' = [pc EXCEPT ![p] = "driver_except"]
    /\ UNCHANGED <<now, options, gen, filtered_combinations, i, search, run>>
    /\ UNCHANGED orgVars

\* "break" in the place of "continue"
AfterExceptionBreak == "summary"

\* where the except block of the loop goes on: "continue", the head of the loop
AfterException == "loop"

\* the except block of the loop in Command.handle:
\* "update_combination_status(location, industry_name, "failed"); continue"
DriverFailed(p) ==
    /\ pc[p] = "driver_except"
    /\ combinations' = update_combination_status(combinations, combo(p).location,
                           combo(p).industry_name, "failed", Absent, now)
    /\ run' = [run EXCEPT ![p].outcome = "failed"]
    /\ pc' = [pc EXCEPT ![p] = AfterException]
    /\ UNCHANGED <<now, options, gen, filtered_combinations, i, search>>
    /\ UNCHANGED orgVars

\* the search returned: "completed_in_run += 1", the progress line, and
\* "if processed < pending_count:" the delay
ItemCompleted(p) ==
    /\ pc[p] = "driver_ok"
    /\ run' = [run EXCEPT ![p].completed_in_run = @ + 1, ![p].outcome = "completed"]
    /\ pc' = [pc EXCEPT ![p] =
                IF i[p] < Len(filtered_combinations[p]) THEN "sleep" ELSE "loop"]
    /\ UNCHANGED <<combinations, now, options, gen, filtered_combinations, i, search>>
    /\ UNCHANGED orgVars

\* "delay = random.randint(15, 20); time.sleep(delay)"
Delay(p, delay) ==
    /\ pc[p] = "sleep"
    /\ run' = [run EXCEPT ![p].delay = delay]
    /\ pc' = [pc EXCEPT ![p] = "loop"]
    /\ UNCHANGED <<combinations, now, options, gen, filtered_combinations, i, search>>
    /\ UNCHANGED orgVars

\* a loop that takes a failed combination again before it moves on
NextItemRetriesFailed(p) ==
    /\ pc[p] = "loop"
    /\ run[p].outcome = "failed" \/ i[p] < Len(filtered_combinations[p])
    /\ i' = [i EXCEPT ![p] = IF run[p].outcome = "failed" THEN @ ELSE @ + 1]
    /\ pc' = [pc EXCEPT ![p] = "item"]
    /\ run' = [run EXCEPT ![p] = NoItem(@)]
    /\ search' = [search EXCEPT ![p] = NoSearch]
    /\ UNCHANGED <<combinations, now, options, gen, filtered_combinations>>
    /\ UNCHANGED orgVars

\* the for loop takes the next combination, or ends
NextItem(p) ==
    /\ pc[p] = "loop"
    /\ i[p] < Len(filtered_combinations[p])
    /\ i' = [i EXCEPT ![p] = @ + 1]
    /\ pc' = [pc EXCEPT ![p] = "item"]
    /\ run' = [run EXCEPT ![p] = NoItem(@)]
    /\ search' = [search EXCEPT ![p] = NoSearch]
    /\ UNCHANGED <<combinations, now, options, gen, filtered_combinations>>
    /\ UNCHANGED orgVars

EndLoop(p) ==
    /\ pc[p] = "loop"
    /\ i[p] >= Len(filtered_combinations[p])
    /\ pc' = [pc EXCEPT ![p] = "summary"]
    /\ UNCHANGED <<combinations, now, options, gen, filtered_combinations, i, search, run>>
    /\ UNCHANGED orgVars

\* after the loop: "All N filtered combinations processed!", the run time and
\* the updated counts are written, and the command returns
Summary(p) ==
    /\ pc[p] = "summary"
    /\ Return(p)
    /\ UNCHANGED <<combinations, now>>
    /\ UNCHANGED orgVars

\* the process is terminated in the middle of an invocation
Terminate(p) ==
    /\ pc[p] # "idle"
    /\ Return(p)
    /\ UNCHANGED <<combinations, now>>
    /\ UNCHANGED orgVars


-----------------------------------------------------------------------------
(* The organization side: save_to_mongodb and OrganizationDetailView *)

\* the variables of the commands that a save or a request leaves alone
commandVars == <<combinations, options, gen, filtered_combinations, i, search, run>>

\* "ObjectId(org_id)" raises InvalidId for this org_id; the _id values of the
\* store are 1, 2, ...
Malformed == 0

\* the organizations of a response page, with the industries and keywords of
\* their details
Organizations ==
    [id : {"a1", "a2"}, name : {"Acme", "Bolt"},
     industries : {<<>>, <<"Tech">>, <<"Tech", "Health">>},
     keywords : {<<>>, <<"ai">>}]

\* extract_organization_data: created_at and updated_at are both current_time
extract_organization_data(org, current_time) ==
    [apollo_id |-> org.id, name |-> org.name, industry |-> org.industries,
     keywords |-> org.keywords, created_at |-> current_time, updated_at |-> current_time]

\* "find_one({"name": name})" returns a document
find_one_name(coll, name) == \E k \in 1..Len(coll) : coll[k].name = name

\* "insert_one({"name": ..., "created_at": timezone.now(), "updated_at": timezone.now()})"
insert_one_name(coll, name, t) ==
    Append(coll, [name |-> name, created_at |-> t, updated_at |-> t])

\* "find_one({"apollo_id": apollo_id})": the position of the document, 0 for None
find_one_apollo_id(coll, apollo_id) ==
    IF \E k \in 1..Len(coll) : coll[k].apollo_id = apollo_id
    THEN Min({k \in 1..Len(coll) : coll[k].apollo_id = apollo_id})
    ELSE 0

\* the document "$set" leaves: the fields of data replace those of doc, _id stays
set_fields(doc, data) ==
    [f \in DOMAIN doc |-> IF f \in DOMAIN data THEN data[f] ELSE doc[f]]

\* "update_one({"apollo_id": ...}, {"$set": extracted_data})": the first match, no upsert
update_one_apollo_id(coll, apollo_id, data) ==
    LET k == find_one_apollo_id(coll, apollo_id) IN
    IF k = 0 THEN coll ELSE [coll EXCEPT ![k] = set_fields(coll[k], data)]

\* save_to_mongodb(extract_organization_data(org, ...)) is called
SaveStart(p, org) ==
    /\ pc[p] = "idle"
    /\ now < MaxSaves
    /\ now' = now + 1
    /\ pc' = [pc EXCEPT ![p] = "industry_find"]
    /\ saving' = [saving EXCEPT ![p] =
                     [NoSave EXCEPT !.extracted_data = extract_organization_data(org, now + 1),
                                    !.k = 1]]
    /\ UNCHANGED <<organization_collection, industry_collection, keyword_collection,
                   object_ids, response>>
    /\ UNCHANGED commandVars

\* the exception of a refused insert leaves save_to_mongodb
SaveRaises(p) ==
    /\ pc' = [pc EXCEPT ![p] = "idle"]
    /\ saving' = [saving EXCEPT ![p] = NoSave]

\* "for industry_name in ...: existing_industry = industry_collection.find_one(...)"
IndustryFind(p) ==
    /\ pc[p] = "industry_find"
    /\ LET names == saving[p].extracted_data.industry IN
       IF saving[p].k > Len(names)
       THEN /\ pc' = [pc EXCEPT ![p] = "keyword_find"]
            /\ saving' = [saving EXCEPT ![p].k = 1, ![p].existing = FALSE]
       ELSE /\ pc' = [pc EXCEPT ![p] = "industry_insert"]
            /\ saving' = [saving EXCEPT ![p].existing =
                             find_one_name(industry_collection, names[saving[p].k])]
    /\ UNCHANGED <<organization_collection, industry_collection, keyword_collection,
                   object_ids, response, now>>
    /\ UNCHANGED commandVars

\* a save that writes updated_at of an industry it finds stored
IndustryInsertTouchesExisting(p) ==
    /\ pc[p] = "industry_insert"
    /\ LET name == saving[p].extracted_data.industry[saving[p].k] IN
       IF find_one_name(industry_collection, name)
       THEN industry_collection' =
                [k \in 1..Len(industry_collection) |->
                    IF industry_collection[k].name = name
                    THEN [industry_collection[k] EXCEPT !.updated_at = now]
                    ELSE industry_collection[k]]
       ELSE industry_collection' = insert_one_name(industry_collection, name, now)
    /\ pc' = [pc EXCEPT ![p] = "industry_find"]
    /\ saving' = [saving EXCEPT ![p].k = @ + 1]
    /\ UNCHANGED <<organization_collection, keyword_collection, object_ids, response, now>>
    /\ UNCHANGED commandVars

\* "if not existing_industry: industry_collection.insert_one(...)"; the unique
\* index on name refuses a second document of a name
IndustryInsert(p) ==
    /\ pc[p] = "industry_insert"
    /\ LET name == saving[p].extracted_data.industry[saving[p].k] IN
       IF saving[p].existing
       THEN /\ industry_collection' = industry_collection
            /\ pc' = [pc EXCEPT ![p] = "industry_find"]
            /\ saving' = [saving EXCEPT ![p].k = @ + 1]
       ELSE IF find_one_name(industry_collection, name)
       THEN /\ industry_collection' = industry_collection
            /\ SaveRaises(p)
       ELSE /\ industry_collection' = insert_one_name(industry_collection, name, now)
            /\ pc' = [pc EXCEPT ![p] = "industry_find"]
            /\ saving' = [saving EXCEPT ![p].k = @ + 1]
    /\ UNCHANGED <<organization_collection, keyword_collection, object_ids, response, now>>
    /\ UNCHANGED commandVars

\* "for keyword_name in ...: existing_keyword = keyword_collection.find_one(...)"
KeywordFind(p) ==
    /\ pc[p] = "keyword_find"
    /\ LET names == saving[p].extracted_data.keywords IN
       IF saving[p].k > Len(names)
       THEN /\ pc' = [pc EXCEPT ![p] = "org_find"]
            /\ saving' = [saving EXCEPT ![p].k = 0, ![p].existing = FALSE]
       ELSE /\ pc' = [pc EXCEPT ![p] = "keyword_insert"]
            /\ saving' = [saving EXCEPT ![p].existing =
                             find_one_name(keyword_collection, names[saving[p].k])]
    /\ UNCHANGED <<organization_collection, industry_collection, keyword_collection,
                   object_ids, response, now>>
    /\ UNCHANGED commandVars

\* "if not existing_keyword: keyword_collection.insert_one(...)"
KeywordInsert(p) ==
    /\ pc[p] = "keyword_insert"
    /\ LET name == saving[p].extracted_data.keywords[saving[p].k] IN
       IF saving[p].existing
       THEN /\ keyword_collection' = keyword_collection
            /\ pc' = [pc EXCEPT ![p] = "keyword_find"]
            /\ saving' = [saving EXCEPT ![p].k = @ + 1]
       ELSE IF find_one_name(keyword_collection, name)
       THEN /\ keyword_collection' = keyword_collection
            /\ SaveRaises(p)
       ELSE /\ keyword_collection' = insert_one_name(keyword_collection, name, now)
            /\ pc' = [pc EXCEPT ![p] = "keyword_find"]
            /\ saving' = [saving EXCEPT ![p].k = @ + 1]
    /\ UNCHANGED <<organization_collection, industry_collection, object_ids, response, now>>
    /\ UNCHANGED commandVars

\* "existing_org = organization_collection.find_one({"apollo_id": ...})"
OrgFind(p) ==
    /\ pc[p] = "org_find"
    /\ LET k == find_one_apollo_id(organization_collection,
                                   saving[p].extracted_data.apollo_id) IN
       saving' = [saving EXCEPT
                     ![p].existing = (k # 0),
                     ![p].existing_id = IF k = 0 THEN Absent
                                        ELSE organization_collection[k]._id]
    /\ pc' = [pc EXCEPT ![p] = "org_write"]
    /\ UNCHANGED <<organization_collection, industry_collection, keyword_collection,
                   object_ids, response, now>>
    /\ UNCHANGED commandVars

\* a save that inserts the organization whether or not its apollo_id is stored
OrgWriteAlwaysInserts(p) ==
    /\ pc[p] = "org_write"
    /\ LET data == saving[p].extracted_data IN
       /\ organization_collection' =
              Append(organization_collection,
                     [_id |-> object_ids + 1, apollo_id |-> data.apollo_id,
                      name |-> data.name, industry |-> data.industry,
                      keywords |-> data.keywords, created_at |-> data.created_at,
                      updated_at |-> data.updated_at])
       /\ object_ids' = object_ids + 1
    /\ pc' = [pc EXCEPT ![p] = "idle"]
    /\ saving' = [saving EXCEPT ![p] = NoSave]
    /\ UNCHANGED <<industry_collection, keyword_collection, response, now>>
    /\ UNCHANGED commandVars

\* "if existing_org: extracted_data["updated_at"] = timezone.now(); update_one(...)
\*  else: insert_one(extracted_data)"; the unique index on apollo_id refuses
\* a second document of an apollo_id
OrgWrite(p) ==
    /\ pc[p] = "org_write"
    /\ LET data == saving[p].extracted_data IN
       IF saving[p].existing
       THEN /\ organization_collection' =
                   update_one_apollo_id(organization_collection, data.apollo_id,
                                        [data EXCEPT !.updated_at = now])
            /\ object_ids' = object_ids
       ELSE IF find_one_apollo_id(organization_collection, data.apollo_id) # 0
       THEN UNCHANGED <<organization_collection, object_ids>>
       ELSE /\ organization_collection' =
                   Append(organization_collection,
                          [_id |-> object_ids + 1, apollo_id |-> data.apollo_id,
                           name |-> data.name, industry |-> data.industry,
                           keywords |-> data.keywords, created_at |-> data.created_at,
                           updated_at |-> data.updated_at])
            /\ object_ids' = object_ids + 1
    /\ pc' = [pc EXCEPT ![p] = "idle"]
    /\ saving' = [saving EXCEPT ![p] = NoSave]
    /\ UNCHANGED <<industry_collection, keyword_collection, response, now>>
    /\ UNCHANGED commandVars

\* Organization.get_by_id: "try: find_one({"_id": ObjectId(org_id)}) except: return None";
\* the position of the document, 0 for None
get_by_id(coll, org_id) ==
    IF org_id = Malformed THEN 0
    ELSE IF \E k \in 1..Len(coll) : coll[k]._id = org_id
    THEN CHOOSE k \in 1..Len(coll) : coll[k]._id = org_id
    ELSE 0

\* the org_id values of the requests: malformed, or well-formed
OrgIds == {Malformed} \cup (1..MaxSaves)

\* the bodies of the PUT requests: the serializer requires name only
PutBodies == [name : {None, "Zed"}, apollo_id : {None, "a1"}]

\* the fields of validated_data
validated_data(data) ==
    IF data.apollo_id = None THEN [name |-> data.name]
    ELSE [name |-> data.name, apollo_id |-> data.apollo_id]

\* "delete_one({"_id": ObjectId(org_id)})"
delete_one(coll, k) == SubSeq(coll, 1, k - 1) \o SubSeq(coll, k + 1, Len(coll))

\* "Response({'error': 'Organization not found'}, status=status.HTTP_404_NOT_FOUND)"
NotFound(method, org_id) ==
    [method |-> method, org_id |-> org_id, status |-> 404, body |-> "error"]

\* OrganizationDetailView.get
OrganizationDetailView_get(org_id) ==
    /\ response' = IF get_by_id(organization_collection, org_id) = 0
                   THEN NotFound("GET", org_id)
                   ELSE [method |-> "GET", org_id |-> org_id, status |-> 200,
                         body |-> "organization"]
    /\ UNCHANGED <<organization_collection, industry_collection, keyword_collection,
                   object_ids, saving, now, pc>>
    /\ UNCHANGED commandVars

\* OrganizationDetailView.put: an update that the unique index on apollo_id
\* refuses raises out of the view
OrganizationDetailView_put(org_id, data) ==
    /\ LET k == get_by_id(organization_collection, org_id) IN
       IF k = 0
       THEN /\ response' = NotFound("PUT", org_id)
            /\ UNCHANGED organization_collection
       ELSE IF data.name = None
       THEN /\ response' = [method |-> "PUT", org_id |-> org_id, status |-> 400,
                            body |-> "errors"]
            /\ UNCHANGED organization_collection
       ELSE IF /\ data.apollo_id # None
               /\ find_one_apollo_id(organization_collection, data.apollo_id) \notin {0, k}
       THEN /\ response' = [method |-> "PUT", org_id |-> org_id, status |-> 500,
                            body |-> "exception"]
            /\ UNCHANGED organization_collection
       ELSE /\ response' = [method |-> "PUT", org_id |-> org_id, status |-> 200,
                            body |-> "organization"]
            /\ organization_collection' =
                   [organization_collection EXCEPT
                       ![k] = set_fields(@, validated_data(data))]
    /\ UNCHANGED <<industry_collection, keyword_collection, object_ids, saving, now, pc>>
    /\ UNCHANGED commandVars

\* a delete that goes to the store without looking the organization up:
\* "Organization.delete(org_id)" raises for a malformed org_id
OrganizationDetailView_deleteWithoutLookup(org_id) ==
    /\ LET k == get_by_id(organization_collection, org_id) IN
       IF org_id = Malformed
       THEN /\ response' = [method |-> "DELETE", org_id |-> org_id, status |-> 500,
                            body |-> "exception"]
            /\ UNCHANGED organization_collection
       ELSE /\ response' = [method |-> "DELETE", org_id |-> org_id, status |-> 204,
                            body |-> None]
            /\ organization_collection' =
                   IF k = 0 THEN organization_collection
                   ELSE delete_one(organization_collection, k)
    /\ UNCHANGED <<industry_collection, keyword_collection, object_ids, saving, now, pc>>
    /\ UNCHANGED commandVars

\* OrganizationDetailView.delete
OrganizationDetailView_delete(org_id) ==
    /\ LET k == get_by_id(organization_collection, org_id) IN
       IF k = 0
       THEN /\ response' = NotFound("DELETE", org_id)
            /\ UNCHANGED organization_collection
       ELSE /\ response' = [method |-> "DELETE", org_id |-> org_id, status |-> 204,
                            body |-> None]
            /\ organization_collection' = delete_one(organization_collection, k)
    /\ UNCHANGED <<industry_collection, keyword_collection, object_ids, saving, now, pc>>
    /\ UNCHANGED commandVars

-----------------------------------------------------------------------------
(* Specifications *)

Step(p) ==
    \/ \E opts \in OptionSets : Invoke(p, opts)
    \/ CheckFiles(p)
    \/ ResetFailed(p)
    \/ \E l \in LocationFiles, t \in IndustryFiles : GenerateStart(p, l, t)
    \/ SkipGeneration(p)
    \/ BulkFind(p)
    \/ BulkApply(p)
    \/ BulkReturn(p)
    \/ BulkFail(p)
    \/ GenerateFinish(p)
    \/ Select(p)
    \/ StartSearch(p)
    \/ \E resp \in Responses : SearchPage(p, resp)
    \/ SearchCompleted(p)
    \/ SearchFailed(p)
    \/ DriverFailed(p)
    \/ ItemCompleted(p)
    \/ \E d \in 15..20 : Delay(p, d)
    \/ NextItem(p)
    \/ EndLoop(p)
    \/ Summary(p)
    \/ Terminate(p)

\* a single worker: one process runs the command, again and again
Next == Step(1)

Spec == Init /\ [][Next]_vars

\* A command line that makes the command generate and then find nothing to do
\* as long as no combination is completed.
GenerationOnly == [NoOptions EXCEPT !.status = "completed"]

GeneratorStep(p) ==
    \/ Invoke(p, GenerationOnly)
    \/ CheckFiles(p)
    \/ ResetFailed(p)
    \/ \E l \in LocationFiles, t \in IndustryFiles : GenerateStart(p, l, t)
    \/ BulkFind(p)
    \/ BulkApply(p)
    \/ BulkReturn(p)
    \/ BulkFail(p)
    \/ GenerateFinish(p)
    \/ Select(p)

\* two processes run the command at the same time; their generations interleave
\* operation by operation
NextGenerators == \E p \in Procs : GeneratorStep(p)

\* A run that is not terminated: the command is a sequential program, and each
\* of its steps is taken once it can be; a request of the search returns or
\* raises. The invocations are the operator's and are not forced.
FairOptions ==
    {NoOptions,
     [NoOptions EXCEPT !.skip_generation = TRUE],
     [NoOptions EXCEPT !.reset_failed = TRUE],
     [NoOptions EXCEPT !.status = "in_progress", !.skip_generation = TRUE]}

RunStep(p) ==
    \/ CheckFiles(p)
    \/ ResetFailed(p)
    \/ \E l \in LocationFiles, t \in IndustryFiles : GenerateStart(p, l, t)
    \/ SkipGeneration(p)
    \/ BulkFind(p)
    \/ BulkApply(p)
    \/ BulkReturn(p)
    \/ BulkFail(p)
    \/ GenerateFinish(p)
    \/ Select(p)
    \/ StartSearch(p)
    \/ \E resp \in Responses : SearchPage(p, resp)
    \/ SearchCompleted(p)
    \/ SearchFailed(p)
    \/ DriverFailed(p)
    \/ ItemCompleted(p)
    \/ \E d \in 15..20 : Delay(p, d)
    \/ NextItem(p)
    \/ EndLoop(p)
    \/ Summary(p)

NextFair ==
    \/ \E opts \in FairOptions : Invoke(1, opts)
    \/ RunStep(1)

SpecFair == Init /\ [][NextFair]_vars /\ WF_vars(RunStep(1))

\* Two harvest runs against one store: default runs over the combinations of
\* two locations and one industry, the first with the generation and the
\* second with --skip-generation; their searches find a last page or raise.
HarvestOptions(p) ==
    IF p = 1 THEN NoOptions ELSE [NoOptions EXCEPT !.skip_generation = TRUE]

HarvestResponses ==
    {resp \in Responses :
        \/ resp.error
        \/ /\ resp.status_code = 200
           /\ resp.parseable
           /\ resp.details = "ok"
           /\ resp.organizations \in {0, 7}
           /\ ~resp.has_next_page}

HarvestStep(p) ==
    \/ Invoke(p, HarvestOptions(p))
    \/ CheckFiles(p)
    \/ ResetFailed(p)
    \/ \E t \in IndustryFiles : GenerateStart(p, <<"NYC", "LA">>, t)
    \/ SkipGeneration(p)
    \/ BulkFind(p)
    \/ BulkApply(p)
    \/ BulkReturn(p)
    \/ GenerateFinish(p)
    \/ Select(p)
    \/ StartSearch(p)
    \/ \E resp \in HarvestResponses : SearchPage(p, resp)
    \/ SearchCompleted(p)
    \/ SearchFailed(p)
    \/ DriverFailed(p)
    \/ ItemCompleted(p)
    \/ \E d \in {15, 20} : Delay(p, d)
    \/ NextItem(p)
    \/ EndLoop(p)
    \/ Summary(p)

NextHarvesters == \E p \in Procs : HarvestStep(p)

SpecHarvesters == Init /\ [][NextHarvesters]_vars

SpecGenerators == Init /\ [][NextGenerators]_vars

\* worker p saves organizations of the set orgs, one after the other
SaveStep(p, orgs) ==
    \/ \E org \in orgs : SaveStart(p, org)
    \/ IndustryFind(p)
    \/ IndustryInsert(p)
    \/ KeywordFind(p)
    \/ KeywordInsert(p)
    \/ OrgFind(p)
    \/ OrgWrite(p)

\* one worker saves
NextSaves == SaveStep(1, Organizations)

SpecSaves == Init /\ [][NextSaves]_vars

\* two workers save organizations at the same time
SaverOrganizations ==
    {org \in Organizations :
        org.name = "Acme" /\ org.industries # <<>> /\ org.keywords = <<"ai">>}

NextSavers == \E p \in Procs : SaveStep(p, SaverOrganizations)

SpecSavers == Init /\ [][NextSavers]_vars

\* a worker saves organizations while the API answers requests
Request ==
    \E org_id \in OrgIds :
        \/ OrganizationDetailView_get(org_id)
        \/ \E data \in PutBodies : OrganizationDetailView_put(org_id, data)
        \/ OrganizationDetailView_delete(org_id)

ApiOrganizations ==
    {org \in Organizations :
        org.name = "Acme" /\ org.industries = <<"Tech">> /\ org.keywords = <<"ai">>}

NextApi == SaveStep(1, ApiOrganizations) \/ Request

SpecApi == Init /\ [][NextApi]_vars

-----------------------------------------------------------------------------
(* Properties *)

\* the documents of the collection, by their place in store order
Stored == 1..Len(combinations)

HasCount(doc) == doc.results_count # Absent

\* the stored document of the combination process p is at
Current(p) == Document(combinations, combo(p).location, combo(p).industry_name)

\* C1 as stated: in every reachable state a combination has a results_count
\* if and only if its status is completed.
C1_CountIffCompleted ==
    \A k \in Stored : HasCount(combinations[k]) <=> combinations[k].status = "completed"

\* C1, amended: in every reachable state a combination whose status is
\* completed has a results_count, a non-negative integer. (The converse fails: a
\* count written by a completion stays on the document when the combination is
\* harvested again.)
C1_CompletedHasCount ==
    \A k \in Stored :
        combinations[k].status = "completed" => combinations[k].results_count >= 0

C1_Witness ==
    \E k \in Stored :
        combinations[k].status = "completed" /\ combinations[k].results_count > 0

\* the status changes of the lifecycle
Lifecycle ==
    {<<"pending", "in_progress">>, <<"failed", "in_progress">>,
     <<"in_progress", "completed">>, <<"in_progress", "failed">>,
     <<"failed", "pending">>}

\* C2 as stated: every status change of a combination is one of pending ->
\* in_progress, failed -> in_progress, in_progress -> completed, in_progress ->
\* failed, failed -> pending; no step moves a completed combination.
C2_OnlyLifecycleChanges ==
    [][\A k \in Stored :
          combinations'[k].status # combinations[k].status
          => <<combinations[k].status, combinations'[k].status>> \in Lifecycle]_vars

\* C2, amended: every status change of a combination is one of the five of the
\* lifecycle, or completed -> in_progress made by a run whose --status filter is
\* completed when it starts the search of the combination; no other step moves a
\* completed combination.
C2_LifecycleOrReharvest ==
    [][\A k \in Stored :
          combinations'[k].status # combinations[k].status
          => \/ <<combinations[k].status, combinations'[k].status>> \in Lifecycle
             \/ /\ combinations[k].status = "completed"
                /\ combinations'[k].status = "in_progress"
                /\ \E p \in Procs : /\ pc[p] = "item"
                                    /\ pc'[p] = "request"
                                    /\ options[p].status = "completed"]_vars

C2_Witness ==
    /\ pc[1] = "request"
    /\ options[1].status = "completed"
    /\ Current(1).status = "in_progress"
    /\ HasCount(Current(1))

\* the search of the combination process p is at has returned to the loop
Succeeded(p) ==
    \/ pc[p] \in {"driver_ok", "sleep"}
    \/ pc[p] = "loop" /\ run[p].outcome = "completed"

\* the search of the combination process p is at has raised
Failed(p) ==
    \/ pc[p] = "driver_except"
    \/ pc[p] = "loop" /\ run[p].outcome = "failed"

\* C3: after the search of a combination has returned a count n, the status of
\* the combination is completed and its results_count is n, a non-negative
\* integer.
C3_SuccessStoresCount ==
    \A p \in Procs :
        Succeeded(p) => /\ Current(p).status = "completed"
                        /\ Current(p).results_count = run[p].results_count
                        /\ Current(p).results_count >= 0

C3_Witness ==
    /\ Succeeded(1)
    /\ run[1].results_count > 0
    /\ run[1].before = Absent

\* C4: after the search of a combination has raised, the status of the
\* combination is failed and its results_count is what it was before the search
\* started, absent if it was absent.
C4_FailureKeepsCount ==
    \A p \in Procs :
        Failed(p) => /\ Current(p).status = "failed"
                     /\ Current(p).results_count = run[p].before

C4_Witness ==
    /\ pc[1] = "loop"
    /\ run[1].outcome = "failed"
    /\ run[1].before > 0

Generated(p) == pc[p] = "select" /\ gen[p].returned

\* the elements of the product of the inputs process p has read
Inputs(p) ==
    Range(product(gen[p].locations, employee_ranges, apollo_industries(gen[p].industry_tags)))

\* C6 as stated: after generation, exactly one document exists for every
\* (location, industry) pair of the input sets, whatever the store held before.
\* Stated for the runs in which no batch write failed.
C6_EveryPairOnce ==
    \A p \in Procs :
        Generated(p) /\ ~gen[p].batch_failed
        => \A item \in Inputs(p) :
              Cardinality(Matching(combinations, item.location, item.industry)) = 1

\* process p is inside generate_combinations
Generating(p) ==
    pc[p] \in {"generate", "bulk_write", "bulk_apply", "bulk_return", "gen_count"}

\* C7: no step of generation changes a document that exists: its status,
\* results_count, created_at and every other field are the same after the step.
C7_GenerationKeepsDocuments ==
    [][(\E p \in Procs : Generating(p))
       => /\ Len(combinations') >= Len(combinations)
          /\ \A k \in Stored : combinations'[k] = combinations[k]]_vars

\* generation has inserted a document next to a completed one of its own input
C7_Witness ==
    /\ pc[1] = "gen_count"
    /\ gen[1].new_combinations_count > 0
    /\ \E k \in Stored : /\ combinations[k].status = "completed"
                         /\ combinations[k].location \in Range(gen[1].locations)
                         /\ combinations[k].created_at < now

\* C9 as stated: the total returned by generation equals
\* |locations| x |employee_ranges| x |industries| of the input of that run.
C9_TotalIsProduct ==
    \A p \in Procs :
        Generated(p) => gen[p].result.total =
                            Len(gen[p].locations) * Len(employee_ranges)
                                * Len(gen[p].industry_tags)

\* C9, amended: the total returned by generation equals the number of documents
\* in the store when generation returns; it equals |locations| x
\* |employee_ranges| x |industries| when generation was skipped.
C9_TotalIsDocumentCount ==
    \A p \in Procs :
        Generated(p)
        => /\ gen[p].result.total = Len(combinations)
           /\ gen[p].result.skipped_generation
              => gen[p].result.total = Len(gen[p].locations) * Len(employee_ranges)
                                           * Len(gen[p].industry_tags)

\* generation ran, no batch failed, and the total is not the product
C9_Witness ==
    /\ Generated(1)
    /\ ~gen[1].result.skipped_generation
    /\ ~gen[1].batch_failed
    /\ gen[1].result.total # gen[1].total_potential

\* the step of process p that applies --reset-failed
ResetStep(p) ==
    pc[p] = "reset" /\ pc'[p] = "generate" /\ options[p].reset_failed

\* C10: --reset-failed changes the status of every failed combination to
\* pending and the status of no other combination, and leaves every field other
\* than status and updated_at of every combination as it was.
C10_ResetFailedOnly ==
    [][\A p \in Procs :
          ResetStep(p)
          => /\ Len(combinations') = Len(combinations)
             /\ \A k \in Stored :
                   /\ combinations'[k].status =
                        IF combinations[k].status = "failed" THEN "pending"
                        ELSE combinations[k].status
                   /\ [combinations'[k] EXCEPT !.status = "x", !.updated_at = 0]
                        = [combinations[k] EXCEPT !.status = "x", !.updated_at = 0]]_vars

\* a reset has moved a failed combination to pending next to a completed one
C10_Witness ==
    /\ pc[1] = "generate"
    /\ options[1].reset_failed
    /\ \E k \in Stored : /\ combinations[k].status = "pending"
                         /\ combinations[k].updated_at = now
                         /\ combinations[k].created_at < now
    /\ \E k \in Stored : combinations[k].status = "completed"

\* C8: in every reachable state, also while two generation runs interleave their
\* conditional inserts, at most one document exists per (location,
\* industry_name) pair.
C8_OneDocumentPerPair ==
    \A k1, k2 \in Stored :
        /\ combinations[k1].location = combinations[k2].location
        /\ combinations[k1].industry_name = combinations[k2].industry_name
        => k1 = k2

\* two runs both found a pair missing, and the insert of the second was refused
C8_Witness ==
    /\ gen[1].write_errors > 0
    /\ Generating(2)
    /\ gen[2].upserted > 0

-----------------------------------------------------------------------------
(* The selector *)

\* the run of p has just selected its combinations: nothing has been written
\* to the store since the find
JustSelected(p) == pc[p] = "item" /\ i[p] = 1

\* the status filter of the run: the --status given, or pending and failed
StatusFilter(opts) ==
    IF opts.status = None THEN {"pending", "failed"} ELSE {opts.status}

\* the stored documents the filters of the run of p ask for
Asked(p) ==
    {k \in Stored :
        /\ combinations[k].status \in StatusFilter(options[p])
        /\ options[p].location # None =>
               regex_i(options[p].location, combinations[k].location)
        /\ options[p].industry # None =>
               regex_i(options[p].industry, combinations[k].industry_name)}

\* C11: the selector returns only combinations whose status is in the status
\* filter of the run (pending and failed when no --status is given), and
\* without a limit it returns every stored combination of such a status that
\* matches the location and industry filters.
C11_SelectedMatchFilter ==
    \A p \in Procs :
        JustSelected(p) =>
            /\ \A j \in 1..Len(filtered_combinations[p]) :
                   \E k \in Stored :
                       /\ Projected(combinations[k]) = filtered_combinations[p][j]
                       /\ combinations[k].status \in StatusFilter(options[p])
            /\ options[p].limit = 0 =>
                   \A k \in Asked(p) :
                       \E j \in 1..Len(filtered_combinations[p]) :
                           filtered_combinations[p][j] = Projected(combinations[k])

\* a default run selects the failed and the pending document of the store
C11_Witness ==
    /\ JustSelected(1)
    /\ options[1].status = None
    /\ options[1].limit = 0
    /\ Len(filtered_combinations[1]) = 2
    /\ \E k \in Stored : combinations[k].status = "failed"
    /\ \E k \in Stored : combinations[k].status = "pending"

\* C12: when a limit is given and is smaller than the number of matching
\* combinations, the list to process is exactly the first limit of them in
\* the order of the store; otherwise it is the whole matching list.
C12_LimitKeepsFirst ==
    \A p \in Procs :
        JustSelected(p) =>
            LET matching == SelectSeq(combinations,
                                LAMBDA d : Cardinality(Asked(p)) > 0 /\
                                    \E k \in Asked(p) : combinations[k] = d)
                limit    == options[p].limit
                kept     == IF limit >= 1 /\ limit < Len(matching)
                            THEN limit ELSE Len(matching)
            IN  /\ Len(filtered_combinations[p]) = kept
                /\ \A j \in 1..kept :
                       filtered_combinations[p][j] = Projected(matching[j])

\* a run with --limit 1 over two matching documents keeps the first of them
C12_Witness ==
    /\ JustSelected(1)
    /\ options[1].limit = 1
    /\ Cardinality(Asked(1)) = 2
    /\ Len(filtered_combinations[1]) = 1

-----------------------------------------------------------------------------
(* Failures of the search *)

\* C13: when the search of a combination meets a network error, a response
\* whose status code is not 200, or a body that does not parse, the
\* combination is marked failed, never completed, and the run goes on to the
\* next item: it ends with every selected item attempted.
C13_TroubleMarksFailed ==
    \A p \in Procs :
        /\ ((Succeeded(p) \/ Failed(p)) /\ run[p].met # None) =>
               Current(p).status = "failed"
        /\ pc[p] = "summary" => run[p].attempted = run[p].pending_count

-----------------------------------------------------------------------------
(* The driver loop *)

\* the run of p is in its loop over the selected combinations, or just past it
InLoop(p) ==
    pc[p] \in {"item", "request", "search_done", "search_except", "driver_ok",
               "driver_except", "sleep", "loop", "summary"}

\* C14: within one run each selected combination is handed to the search
\* exactly once, whether its search succeeds or fails: the selected
\* combinations are distinct, the search has been called once for each of the
\* items the loop has been at, and for none of the others.
C14_EachItemOnce ==
    \A p \in Procs :
        InLoop(p) =>
            /\ \A j, k \in 1..Len(filtered_combinations[p]) :
                   filtered_combinations[p][j] = filtered_combinations[p][k] => j = k
            /\ run[p].attempted = IF pc[p] = "item" THEN i[p] - 1 ELSE i[p]
            /\ pc[p] = "summary" => i[p] = Len(filtered_combinations[p])

\* the second of two items is being searched after the search of the first
\* has failed
C14_Witness ==
    /\ pc[1] = "request"
    /\ i[1] = 2
    /\ run[1].attempted = 2
    /\ run[1].completed_in_run = 0

-----------------------------------------------------------------------------
(* Failed combinations *)

\* the step by which the run of p hands the combination it is at to the search
Attempts(p) == pc[p] = "item" /\ pc'[p] = "request"

\* C15 as stated: a combination whose status is failed is not attempted by a
\* run unless a reset has first moved it to pending, so no combination is
\* failed at the moment it is handed to the search.
C15_FailedNeverAttempted ==
    [][\A p \in Procs : Attempts(p) => Current(p).status # "failed"]_vars

\* C15, amended: a failed combination is attempted again without any reset,
\* but only by a later run than the one it failed in, and only by a run whose
\* status filter is the default (pending and failed) or failed and which did
\* not ask for the reset.
C15_FailedAttemptedByFilter ==
    [][\A p \in Procs :
          (Attempts(p) /\ Current(p).status = "failed") =>
              /\ options[p].status \in {None, "failed"}
              /\ ~options[p].reset_failed
              /\ Current(p).updated_at < now]_vars

\* a default run without --reset-failed is about to search a combination
\* that an earlier run left failed
C15_Witness ==
    /\ pc[1] = "item"
    /\ options[1].status = None
    /\ ~options[1].reset_failed
    /\ Current(1).status = "failed"
    /\ Current(1).updated_at < now

-----------------------------------------------------------------------------
(* Missing credentials *)

\* C16: when the cookies file or the headers file is missing at start-up, the
\* run is aborted before any item is processed: its next step is the return
\* of the command, no search has been called and no document is changed, and
\* no run is past the check without both files.
C16_NoFilesNoWork ==
    [][\A p \in Procs :
          /\ (pc[p] = "check_files" /\
              ~(options[p].cookies_file /\ options[p].headers_file)) =>
                 /\ pc'[p] = "idle"
                 /\ combinations' = combinations
                 /\ run'[p].attempted = 0
          /\ pc'[p] \notin {"idle", "check_files"} =>
                 options'[p].cookies_file /\ options'[p].headers_file]_vars

\* the command has returned on a missing file while the store holds a
\* combination a default run would have selected
C16_Witness ==
    /\ pc[1] = "idle"
    /\ run[1].exit = "no_files"
    /\ \E k \in Stored : combinations[k].status = "failed"

-----------------------------------------------------------------------------
(* Pacing *)

\* C17: after every processed item that is not the last of the queue, whether
\* it completed or failed, a delay of 15 to 20 seconds has been slept when the
\* loop takes the next item; no delay is slept after the last item.
C17_DelayBetweenItems ==
    [][\A p \in Procs :
          /\ (pc[p] = "loop" /\ pc'[p] = "item") => run[p].delay \in 15..20
          /\ (pc[p] = "loop" /\ pc'[p] = "summary") => run[p].delay = 0]_vars

-----------------------------------------------------------------------------
(* Two harvest runs *)

\* the runs of p and q are at the same combination
SameItem(p, q) ==
    /\ p # q
    /\ pc[p] \in {"item", "request"}
    /\ pc[q] \in {"item", "request"}
    /\ combo(p) = combo(q)

\* C18: with two harvest runs against the same store nothing claims an item at
\* selection and nothing prevents double processing: a run that has selected
\* a combination can hand it to the search while the other run, which
\* selected it too, is searching it. (The interleaving in which both runs
\* selected it pending and both search it is the state C18_Witness.)
C18_NothingPreventsDoubleProcessing ==
    \A p, q \in Procs :
        (SameItem(p, q) /\ pc[p] = "item" /\ pc[q] = "request") =>
            ENABLED StartSearch(p)

\* both runs have selected the same combination while it was pending, and both
\* have handed it to the search
C18_Witness ==
    /\ SameItem(1, 2)
    /\ pc[1] = "request"
    /\ pc[2] = "request"
    /\ options[1].status = None
    /\ options[2].status = None
    /\ Current(1).status = "in_progress"
    /\ run[1].attempted = 1
    /\ run[2].attempted = 1
    /\ run[1].before = Absent
    /\ run[2].before = Absent
    /\ \A k \in Stored : combinations[k].status \in {"pending", "in_progress"}

-----------------------------------------------------------------------------
(* Termination *)

-----------------------------------------------------------------------------
(* New documents *)

\* the documents the generation of the run of p has inserted: the run is the
\* only one since its invocation, and it stamps its documents with its time
Inserted(p) == {k \in Stored : combinations[k].created_at = now}

\* C20: every document newly inserted by generation has status pending and no
\* results_count, and a generation that started from an empty store leaves all
\* combinations pending.
C20_NewDocumentsPending ==
    \A p \in Procs :
        Generated(p) =>
            /\ \A k \in Inserted(p) :
                   /\ combinations[k].status = "pending"
                   /\ ~HasCount(combinations[k])
            /\ Inserted(p) = Stored =>
                   \A k \in Stored : combinations[k].status = "pending"

\* a generation has inserted a pending document next to a failed one that an
\* earlier run left
C20_Witness ==
    /\ Generated(1)
    /\ gen[1].new_combinations_count = 1
    /\ Cardinality(Inserted(1)) = 1
    /\ \E k \in Stored \ Inserted(1) : combinations[k].status = "failed"

-----------------------------------------------------------------------------
(* Order of the writes and the search *)

\* the document of item j of the queue of p
Item(p, j) ==
    Document(combinations, filtered_combinations[p][j].location,
             filtered_combinations[p][j].industry_name)

\* C21: for each item of a run the writes and the search are ordered. While the
\* search requests of an item are made, and until its end is written, the
\* combination is in_progress: the in_progress write came before the first
\* request and the terminal write comes after the search has returned or
\* raised. When the loop is at an item it has not started, and when it is in
\* the search of an item, every earlier item is completed or failed: the
\* terminal write of an item comes before the in_progress write of the next.
C21_WritesOrdered ==
    \A p \in Procs :
        /\ pc[p] \in {"request", "search_done", "search_except"} =>
               Current(p).status = "in_progress"
        /\ pc[p] \in {"driver_ok", "driver_except", "sleep", "loop"} =>
               Current(p).status \in {"completed", "failed"}
        /\ pc[p] \in {"item", "request", "search_done", "search_except"} =>
               \A j \in 1..(i[p] - 1) : Item(p, j).status \in {"completed", "failed"}

\* the search of the second item is being made: the second is in_progress and
\* the first has its terminal status
C21_Witness ==
    /\ pc[1] = "request"
    /\ i[1] = 2
    /\ Item(1, 2).status = "in_progress"
    /\ Item(1, 1).status = "completed"

-----------------------------------------------------------------------------
(* The skipped generation *)

\* the number of stored combinations of a status
WithStatus(st) == Cardinality({k \in Stored : combinations[k].status = st})

\* C22: when the store holds total_potential documents at the start of
\* generation, generation writes nothing and returns the current counts of
\* pending, completed, failed and in_progress combinations. Stated when
\* generate_combinations has returned in the run of a single worker, whose
\* writes carry the time of the run: the documents the store held at the start
\* are then those not created by the run. If they were total_potential, the
\* generation was skipped; and after a skipped generation no document has been
\* created, none has been updated but by the reset of the same run, and the
\* counts returned are those of the store.
C22_SkipWritesNothing ==
    \A p \in Procs :
        Generated(p) =>
            /\ Len(combinations) - Cardinality(Inserted(p)) = gen[p].total_potential =>
                   gen[p].result.skipped_generation
            /\ gen[p].result.skipped_generation =>
                   /\ Inserted(p) = {}
                   /\ \A k \in Stored :
                          combinations[k].updated_at = now =>
                              options[p].reset_failed /\ combinations[k].status = "pending"
                   /\ gen[p].result.pending = WithStatus("pending")
                   /\ gen[p].result.completed = WithStatus("completed")
                   /\ gen[p].result.failed = WithStatus("failed")
                   /\ gen[p].result.in_progress = WithStatus("in_progress")

\* a generation has been skipped over a store holding a completed and a failed
\* combination
C22_Witness ==
    /\ Generated(1)
    /\ gen[1].result.skipped_generation
    /\ gen[1].result.completed = 1
    /\ gen[1].result.failed = 1
    /\ Len(combinations) = 2

-----------------------------------------------------------------------------
(* The count of new combinations *)

\* C24: the count of newly inserted items a generation run returns equals the
\* number of documents that exist after the run and did not exist before it,
\* for a single generator with no other writer, also in a run in which a batch
\* write reports a failure.
C24_NewAddedCountsInserted ==
    \A p \in Procs :
        (Generated(p) /\ ~gen[p].result.skipped_generation) =>
            gen[p].result.new_added = Cardinality(Inserted(p))

-----------------------------------------------------------------------------
(* Batch write failures *)

\* C23: a batch write failure does not stop generation: when
\* generate_combinations has returned, every element of the product has been
\* put in a batch, also after a batch was dropped; and a generation run in
\* which no batch fails, made when another run has dropped a batch, leaves
\* every (location, industry) pair of its input present exactly once.
C23_FailedBatchRecovered ==
    \A p \in Procs :
        Generated(p) =>
            /\ ~gen[p].result.skipped_generation =>
                   gen[p].processed_count = gen[p].total_potential
            /\ (~gen[p].batch_failed /\
                \E q \in Procs \ {p} : Generated(q) /\ gen[q].batch_failed) =>
                   \A item \in Inputs(p) :
                       Cardinality(Matching(combinations, item.location,
                                            item.industry)) = 1

-----------------------------------------------------------------------------
(* One combination at a time *)

\* the stored combinations that are in_progress
InProgress == {k \in Stored : combinations[k].status = "in_progress"}

\* C25: with a single harvest run started on a store that holds no in_progress
\* combination, at most one combination is in_progress at every moment of the
\* run. A combination that was in_progress before the run was invoked carries
\* an earlier time than the run's.
C25_OneInProgress ==
    \A p \in Procs :
        (pc[p] # "idle" /\ \A k \in InProgress : combinations[k].updated_at = now) =>
            Cardinality(InProgress) <= 1

\* the second item of a run is in_progress, the first, which failed, is not
C25_Witness ==
    /\ pc[1] = "request"
    /\ i[1] = 2
    /\ Item(1, 1).status = "failed"
    /\ Cardinality(InProgress) = 1
    /\ \A k \in InProgress : combinations[k].updated_at = now

-----------------------------------------------------------------------------
(* The end of a run *)

\* C26: a harvest run that is not terminated, and whose searches return or
\* raise, eventually finishes; and when its loop has finished every
\* combination of the selected queue is completed or failed: none is left
\* in_progress or pending by the run.
C26_RunFinishes ==
    /\ \A p \in Procs : (pc[p] = "check_files") ~> (pc[p] = "idle")
    /\ [](\A p \in Procs :
             pc[p] = "summary" =>
                 \A j \in 1..Len(filtered_combinations[p]) :
                     Item(p, j).status \in {"completed", "failed"})

\* a run over two combinations has finished: the first failed, the second is
\* completed
C26_Witness ==
    /\ pc[1] = "summary"
    /\ Len(filtered_combinations[1]) = 2
    /\ Item(1, 1).status = "failed"
    /\ Item(1, 2).status = "completed"

-----------------------------------------------------------------------------
(* Combinations left in_progress *)

\* document k is in_progress and no running search has put it there: an
\* earlier run left it
LeftInProgress(k) ==
    /\ combinations[k].status = "in_progress"
    /\ combinations[k].updated_at < now

\* C27: a combination that is in_progress (left so by an earlier run) is not
\* selected by a run with the default status filter and is not changed by the
\* reset of failed combinations; the only step that changes it is the start of
\* its search by a run whose status filter is in_progress.
C27_InProgressOnlyByFilter ==
    [][\A k \in Stored :
          LeftInProgress(k) =>
              /\ combinations'[k] # combinations[k] =>
                     \E p \in Procs :
                         /\ options[p].status = "in_progress"
                         /\ Attempts(p)
                         /\ Current(p) = combinations[k]
              /\ \A p \in Procs :
                     (pc[p] = "select" /\ pc'[p] = "item" /\ options[p].status = None) =>
                         \A j \in 1..Len(filtered_combinations'[p]) :
                             filtered_combinations'[p][j] # Projected(combinations[k])]_vars

\* a run with --status in_progress is searching a combination that an earlier
\* run left in_progress
C27_Witness ==
    /\ pc[1] = "request"
    /\ options[1].status = "in_progress"
    /\ run[1].attempted = 1
    /\ Current(1).status = "in_progress"
    /\ Current(1).created_at < now

-----------------------------------------------------------------------------
(* Missing credentials and the store *)

\* the run of p was invoked with --reset-failed and without --skip-generation,
\* and the cookies file or the headers file is missing
WithoutFiles(p) ==
    /\ options[p].reset_failed
    /\ ~options[p].skip_generation
    /\ ~(options[p].cookies_file /\ options[p].headers_file)

\* C28: when the cookies file or the headers file is missing, a run invoked
\* with --reset-failed and without --skip-generation leaves the store exactly
\* as it was: every step of it, from the invocation to its return, leaves the
\* combinations unchanged, and it is never past the check of the files, where
\* the reset and the generation are.
C28_NoFilesStoreKept ==
    [][\A p \in Procs :
          (WithoutFiles(p) \/ WithoutFiles(p)') =>
              /\ combinations' = combinations
              /\ pc'[p] \in {"check_files", "idle"}
              /\ gen'[p] = NoGen]_vars

\* the command has returned on a missing file, and the one combination of the
\* store, failed in an earlier run, is still failed
C28_Witness ==
    /\ pc[1] = "idle"
    /\ run[1].exit = "no_files"
    /\ Len(combinations) = 1
    /\ combinations[1].status = "failed"
    /\ combinations[1].updated_at < now

-----------------------------------------------------------------------------
(* What the harvest of a combination changes *)

\* the run of p is processing the combination its loop is at
Processing(p) ==
    pc[p] \in {"item", "request", "search_done", "search_except", "driver_ok",
               "driver_except", "sleep"}

\* C29: harvesting one combination changes only the document of that
\* (location, industry_name) pair: a step of a run that is processing an item
\* leaves every other document, with its status, results_count and updated_at,
\* as it was, and the store holds the same number of documents. Stated for
\* every step of two runs against the same store.
C29_OnlyOwnDocument ==
    [][\A p \in Procs :
          (Processing(p) /\ pc'[p] # pc[p]) =>
              /\ Len(combinations') = Len(combinations)
              /\ \A k \in Stored :
                     (combinations[k].location # combo(p).location \/
                      combinations[k].industry_name # combo(p).industry_name) =>
                         combinations'[k] = combinations[k]]_vars

\* the first of two combinations has been harvested, and the second is as it
\* was created
C29_Witness ==
    /\ pc[1] = "driver_ok"
    /\ i[1] = 1
    /\ Len(filtered_combinations[1]) = 2
    /\ Item(1, 1).status = "completed"
    /\ Item(1, 2).status = "pending"
    /\ Item(1, 2).updated_at = Item(1, 2).created_at

-----------------------------------------------------------------------------
(* The documents of the store *)

\* the (location, industry_name) pairs of the store, in its order
Pairs(coll) == [k \in 1..Len(coll) |-> <<coll[k].location, coll[k].industry_name>>]

\* the locations and industries of the input files
AllLocations == UNION {Range(l) : l \in LocationFiles}
AllIndustries == UNION {Range(apollo_industries(t)) : t \in IndustryFiles}

\* C30: harvest runs and the reset of failed combinations never create and
\* never delete a combination document. The pairs of the store change in no
\* step but the upsert of the generation; and a status update that names a
\* pair that is not in the store leaves the store as it is.
C30_PairsKept ==
    [][/\ Pairs(combinations') # Pairs(combinations) =>
              \E p \in Procs : pc[p] = "bulk_apply"
       /\ \A l \in AllLocations, n \in AllIndustries, st \in Statuses :
              Matching(combinations, l, n) = {} =>
                  /\ update_combination_status(combinations, l, n, st, Absent, now)
                         = combinations
                  /\ update_combination_status(combinations, l, n, st, 0, now)
                         = combinations]_vars

\* a run with --reset-failed has harvested the one combination of a store in
\* which the other pair of the input files has no document
C30_Witness ==
    /\ pc[1] = "summary"
    /\ options[1].reset_failed
    /\ run[1].attempted = 1
    /\ Len(combinations) = 1
    /\ combinations[1].created_at < now
    /\ \E l \in AllLocations, n \in AllIndustries : Matching(combinations, l, n) = {}

-----------------------------------------------------------------------------
(* The order of the steps of an invocation *)

\* document k was failed before the running invocation and its reset has made
\* it pending: it is older than the invocation, pending, and written at the
\* time of the invocation (the generation writes new documents only)
WasReset(k) ==
    /\ combinations[k].status = "pending"
    /\ combinations[k].created_at < now
    /\ combinations[k].updated_at = now

\* C31: within one invocation the reset comes before the generation and the
\* selection: when an invocation with --reset-failed and --status pending has
\* selected, no combination is failed any more, and every combination that was
\* failed before the invocation is in the selected queue, when it matches the
\* location and industry filters and the limit does not cut it off.
C31_ResetBeforeSelection ==
    \A p \in Procs :
        (JustSelected(p) /\ options[p].reset_failed /\ options[p].status = "pending") =>
            /\ \A k \in Stored : combinations[k].status # "failed"
            /\ \A k \in Stored :
                   (WasReset(k) /\ k \in Asked(p) /\ options[p].limit = 0) =>
                       \E j \in 1..Len(filtered_combinations[p]) :
                           filtered_combinations[p][j] = Projected(combinations[k])

\* an invocation with --reset-failed and --status pending has selected a
\* combination that an earlier run left failed
C31_Witness ==
    /\ JustSelected(1)
    /\ options[1].reset_failed
    /\ options[1].status = "pending"
    /\ WasReset(Min(Matching(combinations, combo(1).location, combo(1).industry_name)))

-----------------------------------------------------------------------------
(* Saved organizations *)

\* no two documents of the organization collection have the same apollo_id
UniqueApolloIds ==
    \A j, k \in 1..Len(organization_collection) :
        organization_collection[j].apollo_id = organization_collection[k].apollo_id => j = k

\* process p writes the organization of a save whose apollo_id is stored
Resaves(p) ==
    /\ pc[p] = "org_write"
    /\ pc'[p] = "idle"
    /\ find_one_apollo_id(organization_collection, saving[p].extracted_data.apollo_id) # 0

\* C32: after any sequence of organization saves by one worker the collection
\* has at most one document per apollo_id; the save of a record whose apollo_id
\* is stored adds no document and updates that document: it keeps its _id, takes
\* the fields of the record and a later updated_at, and the other documents stay.
C32_OneDocumentPerApolloId ==
    /\ UniqueApolloIds
    /\ [][/\ UniqueApolloIds'
          /\ \A p \in Procs :
                Resaves(p) =>
                    LET data == saving[p].extracted_data
                        k == find_one_apollo_id(organization_collection, data.apollo_id)
                    IN  /\ Len(organization_collection') = Len(organization_collection)
                        /\ organization_collection'[k]._id = organization_collection[k]._id
                        /\ organization_collection'[k].apollo_id = data.apollo_id
                        /\ organization_collection'[k].name = data.name
                        /\ organization_collection'[k].industry = data.industry
                        /\ organization_collection'[k].keywords = data.keywords
                        /\ organization_collection'[k].updated_at >
                               organization_collection[k].updated_at
                        /\ \A j \in 1..Len(organization_collection) :
                               j # k => organization_collection'[j] = organization_collection[j]
       ]_vars

\* the worker has saved the same apollo_id twice, with another name the second
\* time: one document, written by the second save
C32_Witness ==
    /\ pc[1] = "idle"
    /\ now = 2
    /\ Len(organization_collection) = 1
    /\ organization_collection[1].updated_at = 2
    /\ organization_collection[1].name = "Bolt"

-----------------------------------------------------------------------------
(* Industries and keywords *)

\* no two documents of coll have the same name
UniqueNames(coll) ==
    \A j, k \in 1..Len(coll) : coll[j].name = coll[k].name => j = k

\* every name of the sequence names has a document in coll
AllStored(coll, names) ==
    \A j \in 1..Len(names) : find_one_name(coll, names[j])

\* a save that has come to its organization has a document for each of the
\* industry and keyword names of the record
ReferencedStored ==
    \A p \in Procs :
        pc[p] \in {"org_find", "org_write"} =>
            /\ AllStored(industry_collection, saving[p].extracted_data.industry)
            /\ AllStored(keyword_collection, saving[p].extracted_data.keywords)

\* C33: industry and keyword documents are insert-if-absent by name: the insert
\* step of a save creates the document of a name that is not stored, a save that
\* comes to write its organization has a document for each industry and keyword
\* name of the record, no name ever has two documents, and no step changes or
\* removes a stored industry or keyword document.
C33_InsertIfAbsentByName ==
    /\ UniqueNames(industry_collection)
    /\ UniqueNames(keyword_collection)
    /\ [][/\ UniqueNames(industry_collection')
          /\ UniqueNames(keyword_collection')
          /\ ReferencedStored'
          /\ \A k \in 1..Len(industry_collection) :
                /\ k <= Len(industry_collection')
                /\ industry_collection'[k] = industry_collection[k]
          /\ \A k \in 1..Len(keyword_collection) :
                /\ k <= Len(keyword_collection')
                /\ keyword_collection'[k] = keyword_collection[k]
          /\ \A p \in Procs :
                /\ (pc[p] = "industry_insert" /\ pc'[p] # pc[p]) =>
                       LET name == saving[p].extracted_data.industry[saving[p].k] IN
                       /\ find_one_name(industry_collection', name)
                       /\ Len(industry_collection') =
                              Len(industry_collection) +
                              (IF find_one_name(industry_collection, name) THEN 0 ELSE 1)
                /\ (pc[p] = "keyword_insert" /\ pc'[p] # pc[p]) =>
                       LET name == saving[p].extracted_data.keywords[saving[p].k] IN
                       /\ find_one_name(keyword_collection', name)
                       /\ Len(keyword_collection') =
                              Len(keyword_collection) +
                              (IF find_one_name(keyword_collection, name) THEN 0 ELSE 1)
       ]_vars

\* two saves are done: the first created the industry "Tech" and the keyword
\* "ai", the second, which names both again, created the industry "Health" only
C33_Witness ==
    /\ pc[1] = "idle" /\ pc[2] = "idle"
    /\ Len(organization_collection) = 2
    /\ Len(industry_collection) = 2
    /\ industry_collection[1] = [name |-> "Tech", created_at |-> 1, updated_at |-> 1]
    /\ industry_collection[2] = [name |-> "Health", created_at |-> 2, updated_at |-> 2]
    /\ keyword_collection = <<[name |-> "ai", created_at |-> 1, updated_at |-> 1]>>

-----------------------------------------------------------------------------
(* Requests for organizations that are not stored *)

\* org_id is malformed, or no stored organization has it as its _id
NotStored(org_id) ==
    \/ org_id = Malformed
    \/ \A k \in 1..Len(organization_collection) : organization_collection[k]._id # org_id

\* C34: a get, put or delete of an org_id that is malformed or that no stored
\* organization has is answered with status 404 and the error body, not with
\* an exception, and leaves the organization collection as it is.
C34_NotFoundIsAnswered ==
    [][\A org_id \in OrgIds :
          (/\ NotStored(org_id)
           /\ \/ OrganizationDetailView_get(org_id)
              \/ \E data \in PutBodies : OrganizationDetailView_put(org_id, data)
              \/ OrganizationDetailView_delete(org_id)) =>
              /\ response'.org_id = org_id
              /\ response'.status = 404
              /\ response'.body = "error"
              /\ organization_collection' = organization_collection
      ]_vars

\* the organization with _id 1 was saved and deleted, another one is stored,
\* and a second delete of _id 1 has been answered with 404
C34_Witness ==
    /\ response = NotFound("DELETE", 1)
    /\ object_ids = 2
    /\ Len(organization_collection) = 1
    /\ organization_collection[1]._id = 2

====
